---- MODULE Spec2Model ----
(***************************************************************************)
(* SolMeet (programs/solmeet/src/lib.rs): an Anchor program with two       *)
(* instructions, create_event and join_event, over Event and Claim         *)
(* accounts stored at program-derived addresses.                           *)
(*                                                                         *)
(* The ledger is the runtime's map from address to account.  One           *)
(* instruction is one atomic step: the accounts struct is validated        *)
(* (#[derive(Accounts)]), the handler runs, and the accounts are written   *)
(* back; any error discards every effect of the instruction.               *)
(*                                                                         *)
(* Strings and public keys are byte sequences.  A program-derived address  *)
(* is a hash of the concatenated seeds; the hash is taken to be            *)
(* collision free, so the address is modelled by the concatenation itself. *)
(* Event ids longer than 32 bytes, which the runtime refuses as a seed     *)
(* before the program sees them, are not among the inputs.                 *)
(***************************************************************************)
EXTENDS Integers, Sequences, FiniteSets, TLC

VARIABLES
    accounts,   \* the ledger: address -> Event or Claim account
    last,       \* the instruction executed last and what it returned
    joined,     \* history: <<event_id, attendee>> of every successful join_event
    script,     \* observer: how far the last instructions follow the example of section 8
    batch,      \* the joins submitted together on one event (concurrent submissions)
    pending,    \* the attendees of the batch whose join has not executed yet
    outcome,    \* attendee of the batch -> what its join returned
    wide        \* the Event account of an event with capacity near the top of u16

vars == <<accounts, last, joined, script, batch, pending, outcome, wide>>

----------------------------------------------------------------------------
(* Bounds of the model *)

\* the largest max_claims argument given to create_event
MaxCap == 2

\* how far below the top of u16 the capacities and counts of a wide event start
WideWindow == 12

(* Program constants *)

\* a Pubkey is 32 bytes
PUBKEY_BYTES == 32

\* max_claims and claims_count are u16
U16_RANGE == 65536

----------------------------------------------------------------------------
(* Byte strings *)

Str(n, b) == [i \in 1..n |-> b]

Key(b) == Str(PUBKEY_BYTES, b)

\* b"event" and b"claim"
EVENT_TAG == <<101, 118, 101, 110, 116>>
CLAIM_TAG == <<99, 108, 97, 105, 109>>

\* the signers: three wallets
KeyA == Key(1)
KeyB == Key(2)
KeyC == Key(3)
KeyD == Key(4)
Attendees == {KeyA, KeyB, KeyC}
Creators == {KeyA, KeyB}

\* event ids: "E1", "E2" and one of 17 bytes
E1 == <<69, 49>>
E2 == <<69, 50>>
EventIds == {E1, E2, Str(17, 69)}

\* arguments of create_event: one value within each limit and one a byte over
Names == {<<78>>, Str(51, 78)}
Descriptions == {<<68>>, Str(201, 68)}
Venues == {<<86>>, Str(101, 86)}
Dates == {<<84>>, Str(31, 84)}
Caps == 0..MaxCap

\* what Clock::get() may return
Times == {1700000000}

----------------------------------------------------------------------------
(* Address derivation *)

RECURSIVE ConcatAll(_)
ConcatAll(seeds) ==
    IF seeds = <<>> THEN <<>> ELSE Head(seeds) \o ConcatAll(Tail(seeds))

\* Pubkey::find_program_address(seeds, program_id), as applied by `seeds = [...]`
FindProgramAddress(seeds) == ConcatAll(seeds)

\* the event address derived from the tag alone
Mut_EventSeeds_no_id(event_id) == <<EVENT_TAG>>

\* seeds = [b"event", event_id.as_bytes()]
EventSeeds(event_id) == <<EVENT_TAG, event_id>>

\* the claim seeds without the attendee
Mut_ClaimSeeds_no_attendee(event_id, attendee) == <<CLAIM_TAG, event_id>>

\* seeds = [b"claim", event_id.as_bytes(), attendee.key().as_ref()]
ClaimSeeds(event_id, attendee) == <<CLAIM_TAG, event_id, attendee>>

EventAddr(event_id) == FindProgramAddress(EventSeeds(event_id))
ClaimAddr(event_id, attendee) == FindProgramAddress(ClaimSeeds(event_id, attendee))

----------------------------------------------------------------------------
(* Accounts *)

\* a freshly allocated (zeroed) Event account, as `init` hands it to the handler
NewEvent ==
    [kind |-> "Event", creator |-> Key(0), event_id |-> <<>>, name |-> <<>>,
     description |-> <<>>, venue |-> <<>>, date |-> <<>>,
     max_claims |-> 0, claims_count |-> 0]

\* a freshly allocated (zeroed) Claim account
NewClaim ==
    [kind |-> "Claim", attendee |-> Key(0), event_id |-> <<>>, timestamp |-> 0]

Store(accts, addr, acct) ==
    [x \in (DOMAIN accts) \cup {addr} |-> IF x = addr THEN acct ELSE accts[x]]

Failed(accts, code) == [accts |-> accts, err |-> code]

----------------------------------------------------------------------------
(* create_event *)

\* CreateEvent with init_if_needed: an occupied address is accepted
Mut_CreateEvent_if_needed(accts, event, creator, event_id) ==
    IF event # FindProgramAddress(EventSeeds(event_id)) THEN "ConstraintSeeds"
    ELSE "Ok"

\* #[derive(Accounts)] CreateEvent: `event` is init at the address of its seeds
CreateEvent(accts, event, creator, event_id) ==
    IF event # FindProgramAddress(EventSeeds(event_id)) THEN "ConstraintSeeds"
    ELSE IF event \in DOMAIN accts THEN "AccountAlreadyInUse"
    ELSE "Ok"

\* create_event without the check of max_claims
Mut_create_event_any_cap(event, creator, event_id, name, description, venue, date, max_claims) ==
    IF ~(Len(event_id) <= 16) THEN [err |-> "EventIdTooLong", event |-> event]
    ELSE IF ~(Len(name) <= 50) THEN [err |-> "NameTooLong", event |-> event]
    ELSE IF ~(Len(description) <= 200) THEN [err |-> "DescriptionTooLong", event |-> event]
    ELSE IF ~(Len(venue) <= 100) THEN [err |-> "VenueTooLong", event |-> event]
    ELSE IF ~(Len(date) <= 30) THEN [err |-> "DateTooLong", event |-> event]
    ELSE [err |-> "Ok",
          event |-> [event EXCEPT !.creator = creator,
                                  !.event_id = event_id,
                                  !.name = name,
                                  !.description = description,
                                  !.venue = venue,
                                  !.date = date,
                                  !.max_claims = max_claims,
                                  !.claims_count = 0]]

\* create_event storing the date as the venue
Mut_create_event_venue(event, creator, event_id, name, description, venue, date, max_claims) ==
    IF ~(Len(event_id) <= 16) THEN [err |-> "EventIdTooLong", event |-> event]
    ELSE IF ~(Len(name) <= 50) THEN [err |-> "NameTooLong", event |-> event]
    ELSE IF ~(Len(description) <= 200) THEN [err |-> "DescriptionTooLong", event |-> event]
    ELSE IF ~(Len(venue) <= 100) THEN [err |-> "VenueTooLong", event |-> event]
    ELSE IF ~(Len(date) <= 30) THEN [err |-> "DateTooLong", event |-> event]
    ELSE IF ~(max_claims > 0) THEN [err |-> "InvalidMaxClaims", event |-> event]
    ELSE [err |-> "Ok",
          event |-> [event EXCEPT !.creator = creator,
                                  !.event_id = event_id,
                                  !.name = name,
                                  !.description = description,
                                  !.venue = date,
                                  !.date = date,
                                  !.max_claims = max_claims,
                                  !.claims_count = 0]]

\* create_event checking the description before the name
Mut_create_event_description_first(event, creator, event_id, name, description, venue, date, max_claims) ==
    IF ~(Len(event_id) <= 16) THEN [err |-> "EventIdTooLong", event |-> event]
    ELSE IF ~(Len(description) <= 200) THEN [err |-> "DescriptionTooLong", event |-> event]
    ELSE IF ~(Len(name) <= 50) THEN [err |-> "NameTooLong", event |-> event]
    ELSE IF ~(Len(venue) <= 100) THEN [err |-> "VenueTooLong", event |-> event]
    ELSE IF ~(Len(date) <= 30) THEN [err |-> "DateTooLong", event |-> event]
    ELSE IF ~(max_claims > 0) THEN [err |-> "InvalidMaxClaims", event |-> event]
    ELSE [err |-> "Ok",
          event |-> [event EXCEPT !.creator = creator,
                                  !.event_id = event_id,
                                  !.name = name,
                                  !.description = description,
                                  !.venue = venue,
                                  !.date = date,
                                  !.max_claims = max_claims,
                                  !.claims_count = 0]]

\* create_event storing a fixed event_id, not the one the address was derived from
Mut_create_event_fixed_id(event, creator, event_id, name, description, venue, date, max_claims) ==
    IF ~(Len(event_id) <= 16) THEN [err |-> "EventIdTooLong", event |-> event]
    ELSE IF ~(Len(name) <= 50) THEN [err |-> "NameTooLong", event |-> event]
    ELSE IF ~(Len(description) <= 200) THEN [err |-> "DescriptionTooLong", event |-> event]
    ELSE IF ~(Len(venue) <= 100) THEN [err |-> "VenueTooLong", event |-> event]
    ELSE IF ~(Len(date) <= 30) THEN [err |-> "DateTooLong", event |-> event]
    ELSE IF ~(max_claims > 0) THEN [err |-> "InvalidMaxClaims", event |-> event]
    ELSE [err |-> "Ok",
          event |-> [event EXCEPT !.creator = creator,
                                  !.event_id = name,
                                  !.name = name,
                                  !.description = description,
                                  !.venue = venue,
                                  !.date = date,
                                  !.max_claims = max_claims,
                                  !.claims_count = 0]]

\* the handler: validate, then fill the new account
create_event(event, creator, event_id, name, description, venue, date, max_claims) ==
    IF ~(Len(event_id) <= 16) THEN [err |-> "EventIdTooLong", event |-> event]
    ELSE IF ~(Len(name) <= 50) THEN [err |-> "NameTooLong", event |-> event]
    ELSE IF ~(Len(description) <= 200) THEN [err |-> "DescriptionTooLong", event |-> event]
    ELSE IF ~(Len(venue) <= 100) THEN [err |-> "VenueTooLong", event |-> event]
    ELSE IF ~(Len(date) <= 30) THEN [err |-> "DateTooLong", event |-> event]
    ELSE IF ~(max_claims > 0) THEN [err |-> "InvalidMaxClaims", event |-> event]
    ELSE [err |-> "Ok",
          event |-> [event EXCEPT !.creator = creator,
                                  !.event_id = event_id,
                                  !.name = name,
                                  !.description = description,
                                  !.venue = venue,
                                  !.date = date,
                                  !.max_claims = max_claims,
                                  !.claims_count = 0]]

\* the whole instruction: account validation, handler, write-back or rollback
CreateEventIx(accts, event, creator, event_id, name, description, venue, date, max_claims) ==
    LET v == CreateEvent(accts, event, creator, event_id) IN
    IF v # "Ok" THEN Failed(accts, v)
    ELSE LET h == create_event(NewEvent, creator, event_id, name, description,
                               venue, date, max_claims) IN
         IF h.err # "Ok" THEN Failed(accts, h.err)
         ELSE [accts |-> Store(accts, event, h.event), err |-> "Ok"]

----------------------------------------------------------------------------
(* join_event *)

\* the count is not advanced
Mut_IncU16_none(x) == x % U16_RANGE

\* claims_count kept in a u8 beside a u16 max_claims
Mut_IncU16_u8(x) == (x + 1) % 256

\* event.claims_count += 1 on a u16
IncU16(x) == (x + 1) % U16_RANGE

\* JoinEvent with init_if_needed on `claim`: an occupied claim address is accepted
Mut_JoinEvent_if_needed(accts, event, claim, attendee, event_id) ==
    IF event \notin DOMAIN accts THEN "AccountNotInitialized"
    ELSE IF accts[event].kind # "Event" THEN "AccountDiscriminatorMismatch"
    ELSE IF claim # FindProgramAddress(ClaimSeeds(event_id, attendee)) THEN "ConstraintSeeds"
    ELSE IF ~(accts[event].event_id = event_id) THEN "EventIdMismatch"
    ELSE IF event # FindProgramAddress(EventSeeds(event_id)) THEN "ConstraintSeeds"
    ELSE IF ~(accts[event].claims_count < accts[event].max_claims) THEN "MaxClaimsReached"
    ELSE "Ok"

\* JoinEvent with the event_id constraint of `claim` inverted
Mut_JoinEvent_id_inverted(accts, event, claim, attendee, event_id) ==
    IF event \notin DOMAIN accts THEN "AccountNotInitialized"
    ELSE IF accts[event].kind # "Event" THEN "AccountDiscriminatorMismatch"
    ELSE IF claim # FindProgramAddress(ClaimSeeds(event_id, attendee)) THEN "ConstraintSeeds"
    ELSE IF claim \in DOMAIN accts THEN "AccountAlreadyInUse"
    ELSE IF accts[event].event_id = event_id THEN "EventIdMismatch"
    ELSE IF event # FindProgramAddress(EventSeeds(event_id)) THEN "ConstraintSeeds"
    ELSE IF ~(accts[event].claims_count < accts[event].max_claims) THEN "MaxClaimsReached"
    ELSE "Ok"

\* JoinEvent with another error attached to the capacity constraint of `event`
Mut_JoinEvent_capacity_code(accts, event, claim, attendee, event_id) ==
    IF event \notin DOMAIN accts THEN "AccountNotInitialized"
    ELSE IF accts[event].kind # "Event" THEN "AccountDiscriminatorMismatch"
    ELSE IF claim # FindProgramAddress(ClaimSeeds(event_id, attendee)) THEN "ConstraintSeeds"
    ELSE IF claim \in DOMAIN accts THEN "AccountAlreadyInUse"
    ELSE IF ~(accts[event].event_id = event_id) THEN "EventIdMismatch"
    ELSE IF event # FindProgramAddress(EventSeeds(event_id)) THEN "ConstraintSeeds"
    ELSE IF ~(accts[event].claims_count < accts[event].max_claims) THEN "AlreadyJoined"
    ELSE "Ok"

\* JoinEvent with the constraints run in the order the fields are declared:
\* those of `event` before the allocation of `claim`
Mut_JoinEvent_declared_order(accts, event, claim, attendee, event_id) ==
    IF event \notin DOMAIN accts THEN "AccountNotInitialized"
    ELSE IF accts[event].kind # "Event" THEN "AccountDiscriminatorMismatch"
    ELSE IF event # FindProgramAddress(EventSeeds(event_id)) THEN "ConstraintSeeds"
    ELSE IF ~(accts[event].claims_count < accts[event].max_claims) THEN "MaxClaimsReached"
    ELSE IF claim # FindProgramAddress(ClaimSeeds(event_id, attendee)) THEN "ConstraintSeeds"
    ELSE IF claim \in DOMAIN accts THEN "AccountAlreadyInUse"
    ELSE IF ~(accts[event].event_id = event_id) THEN "EventIdMismatch"
    ELSE "Ok"

\* JoinEvent with `event` a plain mut account: neither its seeds nor the
\* event_id constraint tie it to the requested event_id
Mut_JoinEvent_event_untied(accts, event, claim, attendee, event_id) ==
    IF event \notin DOMAIN accts THEN "AccountNotInitialized"
    ELSE IF accts[event].kind # "Event" THEN "AccountDiscriminatorMismatch"
    ELSE IF claim # FindProgramAddress(ClaimSeeds(event_id, attendee)) THEN "ConstraintSeeds"
    ELSE IF claim \in DOMAIN accts THEN "AccountAlreadyInUse"
    ELSE IF ~(accts[event].claims_count < accts[event].max_claims) THEN "MaxClaimsReached"
    ELSE "Ok"

\* #[derive(Accounts)] JoinEvent.  Anchor loads the non-init account `event`
\* first, then runs the constraints of the init field `claim` (allocation, then
\* its `constraint =`), and only then the constraints of `event`.
JoinEvent(accts, event, claim, attendee, event_id) ==
    IF event \notin DOMAIN accts THEN "AccountNotInitialized"
    ELSE IF accts[event].kind # "Event" THEN "AccountDiscriminatorMismatch"
    ELSE IF claim # FindProgramAddress(ClaimSeeds(event_id, attendee)) THEN "ConstraintSeeds"
    ELSE IF claim \in DOMAIN accts THEN "AccountAlreadyInUse"
    ELSE IF ~(accts[event].event_id = event_id) THEN "EventIdMismatch"
    ELSE IF event # FindProgramAddress(EventSeeds(event_id)) THEN "ConstraintSeeds"
    ELSE IF ~(accts[event].claims_count < accts[event].max_claims) THEN "MaxClaimsReached"
    ELSE "Ok"

\* the handler: capacity check, fill the claim, count it
join_event(event, claim, attendee, event_id, now) ==
    IF ~(event.claims_count < event.max_claims)
    THEN [err |-> "MaxClaimsReached", event |-> event, claim |-> claim]
    ELSE [err |-> "Ok",
          claim |-> [claim EXCEPT !.attendee = attendee,
                                  !.event_id = event_id,
                                  !.timestamp = now],
          event |-> [event EXCEPT !.claims_count = IncU16(@)]]

\* join_event with `event` not declared mut: its change is not written back
Mut_JoinEventIx_event_not_mut(accts, event, claim, attendee, event_id, now) ==
    LET v == JoinEvent(accts, event, claim, attendee, event_id) IN
    IF v # "Ok" THEN Failed(accts, v)
    ELSE LET h == join_event(accts[event], NewClaim, attendee, event_id, now) IN
         IF h.err # "Ok" THEN Failed(accts, h.err)
         ELSE [accts |-> Store(accts, claim, h.claim), err |-> "Ok"]

\* join_event keeping the allocated `claim` when a later constraint fails
Mut_JoinEventIx_allocation_kept(accts, event, claim, attendee, event_id, now) ==
    LET v == JoinEvent(accts, event, claim, attendee, event_id) IN
    IF v \in {"EventIdMismatch", "MaxClaimsReached"}
    THEN [accts |-> Store(accts, claim, NewClaim), err |-> v]
    ELSE IF v # "Ok" THEN Failed(accts, v)
    ELSE LET h == join_event(accts[event], NewClaim, attendee, event_id, now) IN
         IF h.err # "Ok" THEN Failed(accts, h.err)
         ELSE [accts |-> Store(Store(accts, claim, h.claim), event, h.event),
               err |-> "Ok"]

\* join_event with init_if_needed on `event`: a missing event account is allocated
Mut_JoinEventIx_event_if_needed(accts, event, claim, attendee, event_id, now) ==
    LET held == IF event \in DOMAIN accts THEN accts ELSE Store(accts, event, NewEvent)
        v == JoinEvent(held, event, claim, attendee, event_id) IN
    IF v # "Ok" THEN Failed(held, v)
    ELSE LET h == join_event(held[event], NewClaim, attendee, event_id, now) IN
         IF h.err # "Ok" THEN Failed(held, h.err)
         ELSE [accts |-> Store(Store(held, claim, h.claim), event, h.event),
               err |-> "Ok"]

\* the whole instruction
JoinEventIx(accts, event, claim, attendee, event_id, now) ==
    LET v == JoinEvent(accts, event, claim, attendee, event_id) IN
    IF v # "Ok" THEN Failed(accts, v)
    ELSE LET h == join_event(accts[event], NewClaim, attendee, event_id, now) IN
         IF h.err # "Ok" THEN Failed(accts, h.err)
         ELSE [accts |-> Store(Store(accts, claim, h.claim), event, h.event),
               err |-> "Ok"]

----------------------------------------------------------------------------------------------------------------------------------------
(* The ledger as a state machine *)

EmptyLedger == [x \in {} |-> NewEvent]

NoBatch == [event_id |-> <<>>, n |-> 0, r |-> 0]

NoOutcome == [x \in {} |-> "Ok"]

Init ==
    /\ accounts = EmptyLedger
    /\ last = [op |-> "none", err |-> "Ok"]
    /\ joined = {}
    /\ script = 0
    /\ batch = NoBatch
    /\ pending = {}
    /\ outcome = NoOutcome
    /\ wide = NewEvent

WithinLimits(a) ==
    /\ Len(a.name) <= 50
    /\ Len(a.description) <= 200
    /\ Len(a.venue) <= 100
    /\ Len(a.date) <= 30

\* Observer of the example of section 8: create "E1" with max_claims = 2, then
\* joins by A, B, C and A again.  script = k says that the last k instructions
\* were the first k of the example, begun where "E1" was unoccupied.
ScriptAttendee == <<KeyA, KeyB, KeyC, KeyA>>

ScriptAfterCreate(a) ==
    IF /\ a.event_id = E1
       /\ a.event = EventAddr(E1)
       /\ a.max_claims = 2
       /\ WithinLimits(a)
       /\ EventAddr(E1) \notin DOMAIN accounts
    THEN 1 ELSE 0

ScriptAfterJoin(event, claim, attendee, event_id) ==
    IF /\ script \in 1..4
       /\ event_id = E1
       /\ event = EventAddr(E1)
       /\ claim = ClaimAddr(E1, attendee)
       /\ attendee = ScriptAttendee[script]
    THEN script + 1 ELSE 0

\* a create_event transaction; a.event is the account the client names for `event`
CreateEventTx(a) ==
    LET r == CreateEventIx(accounts, a.event, a.creator, a.event_id, a.name,
                           a.description, a.venue, a.date, a.max_claims) IN
    /\ accounts' = r.accts
    /\ last' = [op |-> "create_event", err |-> r.err]
    /\ script' = ScriptAfterCreate(a)
    /\ UNCHANGED <<joined, batch, pending, outcome, wide>>

\* a join_event transaction; `event` and `claim` are the accounts the client names
JoinEventTx(event, claim, attendee, event_id, now) ==
    LET r == JoinEventIx(accounts, event, claim, attendee, event_id, now) IN
    /\ accounts' = r.accts
    /\ last' = [op |-> "join_event", err |-> r.err]
    /\ joined' = IF r.err = "Ok" THEN joined \cup {<<event_id, attendee>>} ELSE joined
    /\ script' = ScriptAfterJoin(event, claim, attendee, event_id)
    /\ UNCHANGED <<batch, pending, outcome, wide>>

CreateArg(event, creator, event_id, name, description, venue, date, max_claims) ==
    [event |-> event, creator |-> creator, event_id |-> event_id, name |-> name,
     description |-> description, venue |-> venue, date |-> date,
     max_claims |-> max_claims]

\* The create_event transactions tried.  Every combination of in-limit and
\* over-limit arguments is tried with creator A and max_claims in {0, 1}; the
\* other creator and the larger capacities are tried with in-limit texts;
\* another event's address named for `event` is tried with valid arguments.
CreateArgs ==
    { CreateArg(EventAddr(i), KeyA, i, t[1], t[2], t[3], t[4], m) :
         i \in EventIds, t \in Names \X Descriptions \X Venues \X Dates, m \in {0, 1} }
    \cup
    { CreateArg(EventAddr(i), c, i, <<78>>, <<68>>, <<86>>, <<84>>, m) :
         i \in EventIds, c \in Creators, m \in Caps }
    \cup
    { CreateArg(EventAddr(j), KeyA, i, <<78>>, <<68>>, <<86>>, <<84>>, 1) :
         i \in {E1, E2}, j \in {E1, E2} }

\* the accounts a client may name for the event: the derived one, or another event's
EventAccts(event_id) == {EventAddr(i) : i \in {event_id, E1, E2}}

\* the accounts a client may name for the claim: the derived one, or another signer's
ClaimAccts(event_id, attendee) == {ClaimAddr(event_id, a) : a \in {attendee, KeyA}}

Next ==
    \/ \E a \in CreateArgs : CreateEventTx(a)
    \/ \E attendee \in Attendees, event_id \in EventIds, now \in Times :
          \E event \in EventAccts(event_id), claim \in ClaimAccts(event_id, attendee) :
             JoinEventTx(event, claim, attendee, event_id, now)

Spec == Init /\ [][Next]_vars

----------------------------------------------------------------------------
(* Concurrent submissions: a batch of join_event transactions on one event,  *)
(* submitted together by distinct attendees holding no claim on it.  The     *)
(* runtime locks the writable Event account, so the joins execute one at a   *)
(* time, in any order.                                                       *)

\* the wallets that submit in batches
Wallets == Attendees \cup {KeyD}

\* the ledger after the attendees of S have joined event_id, one after the other
RECURSIVE JoinAll(_, _, _)
JoinAll(accts, event_id, S) ==
    IF S = {} THEN accts
    ELSE LET a == CHOOSE x \in S : TRUE IN
         JoinAll(JoinEventIx(accts, EventAddr(event_id), ClaimAddr(event_id, a), a,
                             event_id, CHOOSE t \in Times : TRUE).accts,
                 event_id, S \ {a})

\* a ledger the program reaches: event_id created with capacity cap, joined by S
LedgerWith(event_id, creator, cap, S) ==
    JoinAll(CreateEventIx(EmptyLedger, EventAddr(event_id), creator, event_id,
                          <<78>>, <<68>>, <<86>>, <<84>>, cap).accts,
            event_id, S)

InitBatch ==
    \E event_id \in {E1, E2}, cap \in 1..MaxCap, S \in SUBSET Wallets :
       \E N \in (SUBSET (Wallets \ S)) \ {{}} :
          /\ Cardinality(S) <= cap
          /\ accounts = LedgerWith(event_id, KeyA, cap, S)
          /\ last = [op |-> "none", err |-> "Ok"]
          /\ joined = {<<event_id, a>> : a \in S}
          /\ script = 0
          /\ batch = [event_id |-> event_id, n |-> Cardinality(N),
                      r |-> accounts[EventAddr(event_id)].max_claims
                            - accounts[EventAddr(event_id)].claims_count]
          /\ pending = N
          /\ outcome = NoOutcome
          /\ wide = NewEvent

\* the runtime executes one pending join of the batch, atomically
ExecPending(attendee, now) ==
    LET r == JoinEventIx(accounts, EventAddr(batch.event_id),
                         ClaimAddr(batch.event_id, attendee), attendee,
                         batch.event_id, now) IN
    /\ attendee \in pending
    /\ accounts' = r.accts
    /\ last' = [op |-> "join_event", err |-> r.err]
    /\ joined' = IF r.err = "Ok" THEN joined \cup {<<batch.event_id, attendee>>}
                 ELSE joined
    /\ pending' = pending \ {attendee}
    /\ outcome' = [x \in (DOMAIN outcome) \cup {attendee} |->
                     IF x = attendee THEN r.err ELSE outcome[x]]
    /\ UNCHANGED <<script, batch, wide>>

NextBatch == \E attendee \in Wallets, now \in Times : ExecPending(attendee, now)

SpecBatch == InitBatch /\ [][NextBatch]_vars

----------------------------------------------------------------------------
(* Events with capacity near the top of u16.  Such an event is full only     *)
(* after tens of thousands of joins; the specification below follows its     *)
(* Event account alone, from any count its capacity allows, through the      *)
(* joins of attendees who hold no claim on it.  join_event reads and writes  *)
(* nothing else but the new claim.                                           *)

\* the capacities of the wide events: the top of the u16 range
WideCaps == (U16_RANGE - WideWindow) .. (U16_RANGE - 1)

\* the Event account that create_event writes for E1 with capacity cap
WideEvent(cap) ==
    CreateEventIx(EmptyLedger, EventAddr(E1), KeyA, E1, <<78>>, <<68>>, <<86>>,
                  <<84>>, cap).accts[EventAddr(E1)]

InitWide ==
    /\ \E cap \in WideCaps, n \in 0..WideWindow :
          wide = [WideEvent(cap) EXCEPT !.claims_count = cap - n]
    /\ accounts = EmptyLedger
    /\ last = [op |-> "none", err |-> "Ok"]
    /\ joined = {}
    /\ script = 0
    /\ batch = NoBatch
    /\ pending = {}
    /\ outcome = NoOutcome

\* a join_event on the wide event by an attendee who holds no claim on it
JoinWide(attendee, now) ==
    LET held == Store(EmptyLedger, EventAddr(E1), wide)
        r == JoinEventIx(held, EventAddr(E1), ClaimAddr(E1, attendee), attendee, E1, now) IN
    /\ wide' = r.accts[EventAddr(E1)]
    /\ last' = [op |-> "join_event", err |-> r.err]
    /\ UNCHANGED <<accounts, joined, script, batch, pending, outcome>>

NextWide == \E attendee \in Attendees, now \in Times : JoinWide(attendee, now)

SpecWide == InitWide /\ [][NextWide]_vars

----------------------------------------------------------------------------
(* Properties *)

EventAccounts(accts) == {x \in DOMAIN accts : accts[x].kind = "Event"}
ClaimAccounts(accts) == {x \in DOMAIN accts : accts[x].kind = "Claim"}

\* the Claim accounts whose event_id is the given one
ClaimsOf(accts, event_id) == {x \in ClaimAccounts(accts) : accts[x].event_id = event_id}

Full(e) == e.claims_count = e.max_claims

\* The request join_event(event_id) of attendee a: the transaction that names the
\* accounts derived from its arguments, executed in the current state.
Join(a, event_id, now) ==
    JoinEventIx(accounts, EventAddr(event_id), ClaimAddr(event_id, a), a, event_id, now)

\* The request create_event(...) of a.creator, likewise.
Create(a) ==
    CreateEventIx(accounts, EventAddr(a.event_id), a.creator, a.event_id, a.name,
                  a.description, a.venue, a.date, a.max_claims)

\* C1: in every reachable state, whatever calls succeeded or failed before, every
\* Event has 0 <= claims_count <= max_claims and max_claims > 0.
C1_CapacityInvariant ==
    \A x \in EventAccounts(accounts) :
        /\ 0 <= accounts[x].claims_count
        /\ accounts[x].claims_count <= accounts[x].max_claims
        /\ accounts[x].max_claims > 0

\* a full event, just after a call that failed
C1_Witness ==
    /\ last.err # "Ok"
    /\ \E x \in EventAccounts(accounts) : Full(accounts[x])

Min(a, b) == IF a <= b THEN a ELSE b

Succeeded == {a \in DOMAIN outcome : outcome[a] = "Ok"}

\* C2: n distinct attendees holding no claim submit join_event together on an
\* event with r slots left, and the runtime executes the joins one at a time in
\* any order: claims_count never exceeds max_claims, and once all have executed
\* exactly min(n, r) joins succeeded and every other failed with MaxClaimsReached.
C2_ConcurrentJoins ==
    /\ \A x \in EventAccounts(accounts) :
          accounts[x].claims_count <= accounts[x].max_claims
    /\ Cardinality(Succeeded) <= batch.r
    /\ pending = {} =>
          /\ Cardinality(DOMAIN outcome) = batch.n
          /\ Cardinality(Succeeded) = Min(batch.n, batch.r)
          /\ \A a \in (DOMAIN outcome) \ Succeeded : outcome[a] = "MaxClaimsReached"

\* a batch larger than the room left, all executed: some joined, some were refused
C2_Witness ==
    /\ pending = {}
    /\ batch.r > 0
    /\ batch.n > batch.r
    /\ Cardinality(Succeeded) = batch.r

\* C3: at most one Claim exists per (event_id, attendee), and once an attendee
\* has joined an event, every later join_event of that attendee on that event,
\* whichever accounts the client names, fails and leaves the ledger (so the
\* claims and the event's claims_count) as it was.
C3_OneClaimPerAttendee ==
    /\ \A x, y \in ClaimAccounts(accounts) :
          (/\ accounts[x].event_id = accounts[y].event_id
           /\ accounts[x].attendee = accounts[y].attendee) => x = y
    /\ \A p \in joined :
          /\ ClaimAddr(p[1], p[2]) \in ClaimAccounts(accounts)
          /\ \A now \in Times, event \in EventAccts(p[1]), claim \in ClaimAccts(p[1], p[2]) :
                LET r == JoinEventIx(accounts, event, claim, p[2], p[1], now) IN
                /\ r.err # "Ok"
                /\ r.accts = accounts

\* a second join by an attendee who had joined was just refused
C3_Witness ==
    /\ last = [op |-> "join_event", err |-> "AccountAlreadyInUse"]
    /\ joined # {}
    /\ Cardinality(ClaimAccounts(accounts)) = Cardinality(joined)

\* C4: for every Event, claims_count is the number of Claim accounts with that
\* event's event_id, which is the number of successful join_event calls on it.
C4_CountIsClaims ==
    \A x \in EventAccounts(accounts) :
        /\ accounts[x].claims_count
              = Cardinality(ClaimsOf(accounts, accounts[x].event_id))
        /\ accounts[x].claims_count
              = Cardinality({p \in joined : p[1] = accounts[x].event_id})

\* two events, one joined twice and one joined once
C4_Witness ==
    \E x, y \in EventAccounts(accounts) :
        /\ accounts[x].claims_count = 2
        /\ accounts[y].claims_count = 1

\* C5: join_event(event_id) of attendee a succeeds exactly if an Event exists at
\* the address of event_id, its claims_count is below max_claims and no Claim
\* exists for (event_id, a); a success adds exactly one Claim, with attendee a
\* and the requested event_id, adds 1 to that Event's claims_count and changes
\* nothing else.
C5_JoinContract ==
    \A a \in Attendees, event_id \in EventIds, now \in Times :
        LET ev == EventAddr(event_id)
            cl == ClaimAddr(event_id, a)
            r == Join(a, event_id, now) IN
        /\ (r.err = "Ok") <=>
              (/\ ev \in EventAccounts(accounts)
               /\ accounts[ev].claims_count < accounts[ev].max_claims
               /\ cl \notin DOMAIN accounts)
        /\ r.err = "Ok" =>
              /\ DOMAIN r.accts = (DOMAIN accounts) \cup {cl}
              /\ r.accts[cl].kind = "Claim"
              /\ r.accts[cl].attendee = a
              /\ r.accts[cl].event_id = event_id
              /\ r.accts[cl].timestamp = now
              /\ r.accts[ev] = [accounts[ev] EXCEPT
                                   !.claims_count = accounts[ev].claims_count + 1]
              /\ \A x \in (DOMAIN accounts) \ {ev} : r.accts[x] = accounts[x]

\* a join has just succeeded, and another attendee could still join the same way
C5_Witness ==
    /\ last = [op |-> "join_event", err |-> "Ok"]
    /\ \E a \in Attendees, event_id \in EventIds, now \in Times :
          Join(a, event_id, now).err = "Ok"

ValidArgs(a) ==
    /\ Len(a.event_id) <= 16
    /\ WithinLimits(a)
    /\ a.max_claims > 0

\* C6: every create_event whose arguments pass validation and whose event_id
\* address is unoccupied succeeds and adds an Event with claims_count = 0 and
\* creator (the signer), event_id, name, description, venue, date and max_claims
\* as supplied.
C6_CreateContract ==
    \A a \in CreateArgs :
        (/\ a.event = EventAddr(a.event_id)
         /\ ValidArgs(a)
         /\ EventAddr(a.event_id) \notin DOMAIN accounts) =>
            LET r == Create(a) IN
            /\ r.err = "Ok"
            /\ DOMAIN r.accts = (DOMAIN accounts) \cup {EventAddr(a.event_id)}
            /\ r.accts[EventAddr(a.event_id)] =
                  [kind |-> "Event", creator |-> a.creator, event_id |-> a.event_id,
                   name |-> a.name, description |-> a.description,
                   venue |-> a.venue, date |-> a.date,
                   max_claims |-> a.max_claims, claims_count |-> 0]
            /\ \A x \in DOMAIN accounts : r.accts[x] = accounts[x]

\* a second event has just been created beside one that has claims
C6_Witness ==
    /\ last = [op |-> "create_event", err |-> "Ok"]
    /\ \E x, y \in EventAccounts(accounts) :
          /\ accounts[x].claims_count = 0
          /\ accounts[y].claims_count > 0

\* C7: create_event on an event_id whose address holds an Event fails with the
\* address collision (AccountAlreadyInUse), whatever its other arguments and its
\* signer, and leaves the existing Event, and the rest of the ledger, unchanged.
C7_CreateCollision ==
    \A a \in CreateArgs :
        (/\ a.event = EventAddr(a.event_id)
         /\ EventAddr(a.event_id) \in DOMAIN accounts) =>
            LET r == Create(a) IN
            /\ r.err = "AccountAlreadyInUse"
            /\ r.accts = accounts

\* a create_event has just collided, and the event it collided with has claims
C7_Witness ==
    /\ last = [op |-> "create_event", err |-> "AccountAlreadyInUse"]
    /\ EventAccounts(accounts) # {}
    /\ \A x \in EventAccounts(accounts) : accounts[x].claims_count > 0

\* C8 as stated: every join_event on an Event whose claims_count = max_claims
\* fails with MaxClaimsReached and leaves the ledger unchanged.
C8_FullAlwaysCapacityError ==
    \A a \in Attendees, event_id \in EventIds, now \in Times :
        LET ev == EventAddr(event_id) IN
        (ev \in EventAccounts(accounts) /\ Full(accounts[ev])) =>
            /\ Join(a, event_id, now).err = "MaxClaimsReached"
            /\ Join(a, event_id, now).accts = accounts

\* C8, amended: every join_event on an Event whose claims_count = max_claims
\* fails, creates no Claim and leaves claims_count unchanged; the error is
\* MaxClaimsReached unless the attendee already holds a Claim on that Event,
\* and then it is the address collision (AccountAlreadyInUse).
C8_FullRejected ==
    \A a \in Attendees, event_id \in EventIds, now \in Times :
        LET ev == EventAddr(event_id)
            cl == ClaimAddr(event_id, a) IN
        (ev \in EventAccounts(accounts) /\ Full(accounts[ev])) =>
            /\ Join(a, event_id, now).err =
                  IF cl \in DOMAIN accounts THEN "AccountAlreadyInUse"
                  ELSE "MaxClaimsReached"
            /\ Join(a, event_id, now).accts = accounts

\* a join has just been refused for capacity, and every event there is, is full
C8_Witness ==
    /\ last = [op |-> "join_event", err |-> "MaxClaimsReached"]
    /\ EventAccounts(accounts) # {}
    /\ \A x \in EventAccounts(accounts) : Full(accounts[x])

\* C9: create "E1" with max_claims = 2, then joins by A, B, C and A again:
\* the create succeeds; A joins, claims_count = 1; B joins, claims_count = 2;
\* C is refused with MaxClaimsReached, claims_count still 2; A's second join,
\* made while the event is full, is refused with the address collision.
C9_Example ==
    LET e == accounts[EventAddr(E1)] IN
    /\ script = 1 => /\ last = [op |-> "create_event", err |-> "Ok"]
                     /\ e.max_claims = 2 /\ e.claims_count = 0
    /\ script = 2 => /\ last = [op |-> "join_event", err |-> "Ok"]
                     /\ e.claims_count = 1
    /\ script = 3 => /\ last = [op |-> "join_event", err |-> "Ok"]
                     /\ e.claims_count = 2
    /\ script = 4 => /\ last = [op |-> "join_event", err |-> "MaxClaimsReached"]
                     /\ e.claims_count = 2
    /\ script = 5 => /\ last = [op |-> "join_event", err |-> "AccountAlreadyInUse"]
                     /\ e.claims_count = 2 /\ Full(e)

\* the five calls of the example have been made, in order
C9_Witness == script = 5

\* C10 as stated: the error of join_event is that of the first failing
\* precondition in the order: the Event exists, claims_count < max_claims, no
\* Claim exists for (event_id, attendee).
C10_CapacityBeforeCollision ==
    \A a \in Attendees, event_id \in EventIds, now \in Times :
        LET ev == EventAddr(event_id)
            cl == ClaimAddr(event_id, a) IN
        Join(a, event_id, now).err =
            IF ev \notin EventAccounts(accounts) THEN "AccountNotInitialized"
            ELSE IF ~(accounts[ev].claims_count < accounts[ev].max_claims)
                 THEN "MaxClaimsReached"
            ELSE IF cl \in DOMAIN accounts THEN "AccountAlreadyInUse"
            ELSE "Ok"

\* C10, amended: the error of join_event is that of the first failing
\* precondition in the order: the Event exists (AccountNotInitialized), no Claim
\* exists for (event_id, attendee) (AccountAlreadyInUse), claims_count <
\* max_claims (MaxClaimsReached).
C10_CollisionBeforeCapacity ==
    \A a \in Attendees, event_id \in EventIds, now \in Times :
        LET ev == EventAddr(event_id)
            cl == ClaimAddr(event_id, a) IN
        Join(a, event_id, now).err =
            IF ev \notin EventAccounts(accounts) THEN "AccountNotInitialized"
            ELSE IF cl \in DOMAIN accounts THEN "AccountAlreadyInUse"
            ELSE IF ~(accounts[ev].claims_count < accounts[ev].max_claims)
                 THEN "MaxClaimsReached"
            ELSE "Ok"

\* a join has just collided with the attendee's claim on an event, and every
\* event there is, is full: both the capacity and the claim precondition failed
C10_Witness ==
    /\ last = [op |-> "join_event", err |-> "AccountAlreadyInUse"]
    /\ EventAccounts(accounts) # {}
    /\ \A x \in EventAccounts(accounts) : Full(accounts[x])

\* the error of the first constraint of section 4.2 that the arguments violate
FirstViolated(a) ==
    IF Len(a.event_id) > 16 THEN "EventIdTooLong"
    ELSE IF Len(a.name) > 50 THEN "NameTooLong"
    ELSE IF Len(a.description) > 200 THEN "DescriptionTooLong"
    ELSE IF Len(a.venue) > 100 THEN "VenueTooLong"
    ELSE IF Len(a.date) > 30 THEN "DateTooLong"
    ELSE IF a.max_claims <= 0 THEN "InvalidMaxClaims"
    ELSE "Ok"

\* C11 as stated: create_event with arguments violating one or more constraints
\* fails with the error of the first violated one, in the order event_id, name,
\* description, venue, date, max_claims, and no Event exists at the address of
\* its event_id afterwards.
C11_ValidationAlwaysFirst ==
    \A a \in CreateArgs :
        (a.event = EventAddr(a.event_id) /\ ~ValidArgs(a)) =>
            LET r == Create(a) IN
            /\ r.err = FirstViolated(a)
            /\ EventAddr(a.event_id) \notin EventAccounts(r.accts)

\* C11, amended: create_event on an event_id whose address is unoccupied, with
\* arguments violating one or more constraints, fails with the error of the
\* first violated one, in the order event_id, name, description, venue, date,
\* max_claims, and no Event exists at that address afterwards; on an occupied
\* address it fails with the address collision and the Event there stays.
C11_ValidationOnFreeAddress ==
    \A a \in CreateArgs :
        (a.event = EventAddr(a.event_id) /\ ~ValidArgs(a)) =>
            LET r == Create(a) IN
            IF EventAddr(a.event_id) \in DOMAIN accounts
            THEN /\ r.err = "AccountAlreadyInUse"
                 /\ EventAddr(a.event_id) \in EventAccounts(r.accts)
            ELSE /\ r.err = FirstViolated(a)
                 /\ r.err # "Ok"
                 /\ EventAddr(a.event_id) \notin EventAccounts(r.accts)

\* a create_event has just been refused for its name, beside an event that has
\* claims, and a create_event violating several constraints can be made on a
\* free address
C11_Witness ==
    /\ last = [op |-> "create_event", err |-> "NameTooLong"]
    /\ \E x \in EventAccounts(accounts) : accounts[x].claims_count > 0
    /\ \E a \in CreateArgs :
          /\ a.event = EventAddr(a.event_id)
          /\ EventAddr(a.event_id) \notin DOMAIN accounts
          /\ Len(a.name) > 50 /\ Len(a.description) > 200 /\ a.max_claims = 0

ErrorsMet ==
    {Create(a).err : a \in {b \in CreateArgs : b.event = EventAddr(b.event_id)}}
    \cup {Join(a, event_id, now).err :
             a \in Attendees, event_id \in EventIds, now \in Times}

C13_JoinMissingEvent ==
    \A attendee \in Attendees, event_id \in EventIds, now \in Times :
        EventAddr(event_id) \notin EventAccounts(accounts) =>
            /\ Join(attendee, event_id, now).err = "AccountNotInitialized"
            /\ Join(attendee, event_id, now).accts = accounts
            /\ \A event \in EventAccts(event_id), claim \in ClaimAccts(event_id, attendee) :
                  LET r == JoinEventIx(accounts, event, claim, attendee, event_id, now) IN
                  /\ r.err # "Ok"
                  /\ r.accts = accounts

\* a join has just failed for a missing event, beside another event that exists
\* and has room
C13_Witness ==
    /\ last = [op |-> "join_event", err |-> "AccountNotInitialized"]
    /\ \E event_id \in {E1, E2} : EventAddr(event_id) \notin DOMAIN accounts
    /\ \E x \in EventAccounts(accounts) : ~Full(accounts[x])

\* the fields of an Event that no operation may change
EventFixed(e) ==
    <<e.creator, e.event_id, e.name, e.description, e.venue, e.date, e.max_claims>>

\* C14: the ledger is insert-only and accounts are immutable but for
\* claims_count: every step keeps every account, keeps creator, event_id, name,
\* description, venue, date and max_claims of every Event and attendee,
\* event_id and timestamp of every Claim, and a successful join_event changes
\* nothing but adding one Claim and adding 1 to the claims_count of the one
\* Event it targets.
C14_InsertOnly ==
    [][ /\ DOMAIN accounts \subseteq DOMAIN accounts'
        /\ \A x \in EventAccounts(accounts) :
              /\ accounts'[x].kind = "Event"
              /\ EventFixed(accounts'[x]) = EventFixed(accounts[x])
        /\ \A x \in ClaimAccounts(accounts) : accounts'[x] = accounts[x]
        /\ last' = [op |-> "join_event", err |-> "Ok"] =>
              \E ev \in EventAccounts(accounts), cl \in ClaimAccounts(accounts') :
                 /\ cl \notin DOMAIN accounts
                 /\ DOMAIN accounts' = (DOMAIN accounts) \cup {cl}
                 /\ accounts'[cl].event_id = accounts[ev].event_id
                 /\ accounts'[ev] = [accounts[ev] EXCEPT
                                       !.claims_count = accounts[ev].claims_count + 1]
                 /\ \A x \in (DOMAIN accounts) \ {ev} : accounts'[x] = accounts[x]
      ]_vars

\* a join has just succeeded on one of two events that both have claims
C14_Witness ==
    /\ last = [op |-> "join_event", err |-> "Ok"]
    /\ Cardinality(EventAccounts(accounts)) = 2
    /\ \A x \in EventAccounts(accounts) : accounts[x].claims_count > 0
    /\ Cardinality(ClaimAccounts(accounts)) >= 3

\* C15: for every Event, claims_count starts at 0, every step leaves it as it
\* is or adds exactly 1 to it, and Full is terminal: once claims_count =
\* max_claims, it stays so in every later state and no join_event on that Event
\* succeeds, whichever accounts the client names.
C15_CountLifecycle ==
    /\ [][
          /\ \A x \in EventAccounts(accounts') \ DOMAIN accounts :
                accounts'[x].claims_count = 0
          /\ \A x \in EventAccounts(accounts) :
                /\ x \in EventAccounts(accounts')
                /\ accounts'[x].claims_count \in
                      {accounts[x].claims_count, accounts[x].claims_count + 1}
                /\ Full(accounts[x]) =>
                      /\ Full(accounts'[x])
                      /\ accounts'[x].claims_count = accounts[x].claims_count
         ]_vars
    /\ [](\A x \in EventAccounts(accounts) :
            Full(accounts[x]) =>
               \A attendee \in Attendees, now \in Times :
                  \A event \in EventAccts(accounts[x].event_id),
                     claim \in ClaimAccts(accounts[x].event_id, attendee) :
                     JoinEventIx(accounts, event, claim, attendee,
                                 accounts[x].event_id, now).err # "Ok")

\* an event with capacity 2 is full, another is not, and a join has just succeeded
C15_Witness ==
    /\ last = [op |-> "join_event", err |-> "Ok"]
    /\ \E x, y \in EventAccounts(accounts) :
          /\ Full(accounts[x]) /\ accounts[x].max_claims = 2
          /\ ~Full(accounts[y])

\* a ledger with the timestamps of its claims left out
NoTimestamps(accts) ==
    [x \in DOMAIN accts |->
        IF accts[x].kind = "Claim" THEN [accts[x] EXCEPT !.timestamp = 0]
        ELSE accts[x]]

\* two join_event calls, executed one after the other at times t1 and t2
JoinJoin(a1, i1, a2, i2, t1, t2) ==
    LET r1 == JoinEventIx(accounts, EventAddr(i1), ClaimAddr(i1, a1), a1, i1, t1)
        r2 == JoinEventIx(r1.accts, EventAddr(i2), ClaimAddr(i2, a2), a2, i2, t2) IN
    [first |-> r1.err, second |-> r2.err, accts |-> NoTimestamps(r2.accts)]

\* two create_event calls, executed one after the other
CreateCreate(a1, a2) ==
    LET r1 == CreateEventIx(accounts, EventAddr(a1.event_id), a1.creator, a1.event_id,
                            a1.name, a1.description, a1.venue, a1.date, a1.max_claims)
        r2 == CreateEventIx(r1.accts, EventAddr(a2.event_id), a2.creator, a2.event_id,
                            a2.name, a2.description, a2.venue, a2.date, a2.max_claims) IN
    [first |-> r1.err, second |-> r2.err, accts |-> r2.accts]

\* the create_event calls on E1, and those on the other event_ids, that are
\* compared in both orders
CreatesOnE1 ==
    { CreateArg(EventAddr(E1), KeyA, E1, n, <<68>>, <<86>>, <<84>>, m) :
         n \in Names, m \in {0, 1} }

CreatesElsewhere ==
    { CreateArg(EventAddr(i), KeyB, i, <<78>>, d, <<86>>, <<84>>, m) :
         i \in EventIds \ {E1}, d \in Descriptions, m \in {0, MaxCap} }

\* the pairs of different event_ids, each pair once
EventIdPairs == {<<E1, E2>>, <<E1, Str(17, 69)>>, <<E2, Str(17, 69)>>}

\* C16: two join_event calls on different events, by the same or different
\* attendees, and two create_event calls with different event_ids, commute: in
\* both orders of execution each call has the same outcome and the final
\* ledger is the same, apart from the timestamps of the claims.
C16_DisjointCommute ==
    [](/\ \A a1, a2 \in Attendees, ids \in EventIdPairs, t1, t2 \in Times :
             LET p == JoinJoin(a1, ids[1], a2, ids[2], t1, t2)
                 q == JoinJoin(a2, ids[2], a1, ids[1], t1, t2) IN
             /\ p.first = q.second
             /\ p.second = q.first
             /\ p.accts = q.accts
       /\ \A a1 \in CreatesOnE1, a2 \in CreatesElsewhere :
             LET p == CreateCreate(a1, a2)
                 q == CreateCreate(a2, a1) IN
             /\ p.first = q.second
             /\ p.second = q.first
             /\ p.accts = q.accts)

\* both events exist with room and with claims, none of them A's, so that joins
\* by A on the two events both succeed in either order
C16_Witness ==
    /\ \A i \in {E1, E2} :
          /\ EventAddr(i) \in EventAccounts(accounts)
          /\ ~Full(accounts[EventAddr(i)])
          /\ accounts[EventAddr(i)].claims_count > 0
    /\ JoinJoin(KeyA, E1, KeyA, E2, 1700000000, 1700000000).first = "Ok"
    /\ JoinJoin(KeyA, E1, KeyA, E2, 1700000000, 1700000000).second = "Ok"

\* C17 as stated: every Event is stored at the address derived from the
\* event_id it holds, so that the EventIdMismatch check of join_event never
\* fails in any sequence of create_event and join_event calls.
C17_MismatchNeverFails ==
    /\ \A x \in EventAccounts(accounts) : x = EventAddr(accounts[x].event_id)
    /\ last.err # "EventIdMismatch"

\* C17, amended: every Event is stored at the address derived from the event_id
\* it holds, so that the EventIdMismatch check never fails in a join_event whose
\* `event` account is the one derived from the requested event_id; it fails
\* only in a join_event that names the account of another event.
C17_MismatchOnlyOnWrongAccount ==
    /\ \A x \in EventAccounts(accounts) : x = EventAddr(accounts[x].event_id)
    /\ \A attendee \in Attendees, event_id \in EventIds, now \in Times :
          /\ Join(attendee, event_id, now).err # "EventIdMismatch"
          /\ \A event \in EventAccts(event_id), claim \in ClaimAccts(event_id, attendee) :
                JoinEventIx(accounts, event, claim, attendee, event_id, now).err
                      = "EventIdMismatch"
                   => /\ event # EventAddr(event_id)
                      /\ event \in EventAccounts(accounts)

\* both events exist, joins naming the derived accounts have succeeded, and a
\* join naming the other event's account has just failed with EventIdMismatch
C17_Witness ==
    /\ last = [op |-> "join_event", err |-> "EventIdMismatch"]
    /\ \A i \in {E1, E2} :
          /\ EventAddr(i) \in EventAccounts(accounts)
          /\ accounts[EventAddr(i)].claims_count > 0

\* C18: claims_count += 1 never overflows the u16 range: a join_event adds
\* exactly 1 to claims_count and never makes it smaller, and claims_count <=
\* max_claims <= 65535 in every state, also for an Event created with
\* max_claims = 65535.
C18_NoOverflow ==
    /\ [][
          /\ wide'.claims_count >= wide.claims_count
          /\ last'.err = "Ok" => wide'.claims_count = wide.claims_count + 1
          /\ last'.err # "Ok" => wide' = wide
         ]_vars
    /\ [](/\ wide.claims_count <= wide.max_claims
          /\ wide.max_claims <= U16_RANGE - 1
          /\ wide.claims_count <= U16_RANGE - 1)

\* the join that fills an Event created with max_claims = 65535 has just succeeded
C18_Witness ==
    /\ last = [op |-> "join_event", err |-> "Ok"]
    /\ wide.max_claims = U16_RANGE - 1
    /\ wide.claims_count = U16_RANGE - 1

\* C19: every Claim holds the event_id of an Event that exists, and is stored
\* at the address derived from its event_id and its attendee: no Claim exists
\* for an event that was never created.
C19_ClaimsReferToEvents ==
    \A x \in ClaimAccounts(accounts) :
        /\ EventAddr(accounts[x].event_id) \in EventAccounts(accounts)
        /\ accounts[EventAddr(accounts[x].event_id)].event_id = accounts[x].event_id
        /\ x = ClaimAddr(accounts[x].event_id, accounts[x].attendee)

\* one event exists and has claims, the other was never created, and a join
\* naming the existing event's account for the other event_id has just failed
C19_Witness ==
    /\ last = [op |-> "join_event", err |-> "EventIdMismatch"]
    /\ Cardinality(EventAccounts(accounts)) = 1
    /\ Cardinality(ClaimAccounts(accounts)) = 2

====
